---- MODULE Spec2Model ----
(***************************************************************************)
(* State-machine model of SparkConnector/src/widgets/sparkconnector.ts:    *)
(* the StateHandler registry (one NotebookComm per notebook id) and the    *)
(* SparkConnector widget that reacts to notebook focus changes, kernel     *)
(* connection-status changes, comm traffic and kernel restarts.            *)
(*                                                                         *)
(* The host runs one callback to completion before the next, so every      *)
(* action below is one host event together with every handler that the     *)
(* event invokes (all slots connected to the emitted signal, in connection *)
(* order, and the promise continuations that are already runnable).        *)
(***************************************************************************)
EXTENDS Integers, Sequences, FiniteSets

\* ---------------------------------------------------------------- bounds
\* Number of sessionContext.ready continuations (each connects one slot to a
\* kernel's connectionStatusChanged) registered over a run.
MaxWired == 2
\* Number of comms created over a run.
MaxComms == 2
\* Number of 'restarting' reports that reach a kernel.statusChanged slot.
MaxResets == 1
\* Number of slots connected to phase signals (onConnect, onReconfigure)
\* over a run.
MaxSlots == 2

Docs == {"d1", "d2"}
NoDoc == "none"        \* notebooks.currentWidget == null
NoComm == 0            \* no NotebookComm
Absent == "absent"     \* a field an object literal does not have
NoArrival == ""        \* no message in the last step, or none of note
\* An optional value is <<>> (none) or <<v>>.
None == <<>>
Some(v) == <<v>>

\* SparkconnectMetadata values: the default of getCurrentConfigFromNotebook
\* and two values a user can submit.
EmptyConfig == [bundled_options |-> <<>>, list_of_options |-> <<>>]
ConfigA == [bundled_options |-> <<"bundleA">>, list_of_options |-> <<>>]
ConfigB == [bundled_options |-> <<>>,
            list_of_options |-> << [name |-> "spark.x", value |-> "1"] >>]
Configs == {ConfigA, ConfigB}

ConnectionStatuses == {"connected", "connecting", "disconnected"}

\* data.error / data.msg / data.config.sparkhistoryserver of an inbound message
Texts == {"timeout"}

\* msgtype (and page, for sparkconn-action-open) of an inbound comm message
MsgTypes == {"open-config", "open-auth", "open-connected", "connected",
             "config", "connect-error", "follow-log", "unknown"}

VARIABLES
    current,           \* notebooks.currentWidget (a notebook id or NoDoc)
    currentState,      \* SparkConnector.currentState: [name, comm]
    statehandler,      \* SparkConnector.statehandler: [id, states]
    comms,             \* every NotebookComm created by StateHandler.create
    wired,             \* ready.then continuations registered per notebook
    sessionReady,      \* sessionContext.ready has resolved
    connectionStatus,  \* kernel.connectionStatus
    kernelSubs,        \* slots on each kernel's statusChanged (line 300)
    pendingReset,      \* kernel.reconnect().then(reset) not yet resolved
    metadata,          \* notebookPanel.model.metadata 'sparkconnect', optional
    sent,              \* comm.send calls made by the last step
    kernelCalls,       \* kernel.reconnect / kernel.restart calls, last step
    phaseCalls,        \* init / log calls on phase objects, last step
    lastSaved,         \* metadata argument of the last connect action per doc
    arrival,           \* the conditions the last step's message arrived in
    ordering           \* progress of the event sequence of the ordering property

vars == <<current, currentState, statehandler, comms, wired, sessionReady,
          connectionStatus, kernelSubs, pendingReset, metadata, sent,
          kernelCalls, phaseCalls, lastSaved, arrival, ordering>>

\* ---------------------------------------------------------------- phases
\* UndefinedStates: NotAttachedState and LoadingState carry no session data;
\* every instance is the same displayed value.
notattached == [name |-> "notattached", comm |-> NoComm]
loading == [name |-> "loading", comm |-> NoComm]
\* A phase object of NotebookStates is identified by the NotebookComm that
\* owns the bundle.
Phase(n, c) == [name |-> n, comm |-> c]
SessionPhases == {"configuring", "connecting", "connected", "connectfailed"}

CommIds == 1..Len(comms)

\* StateHandler constructor: an empty map.
NewStateHandler(id) == [id |-> id, states |-> [d \in Docs |-> NoComm]]

\* StateHandler.has
has(notebookId) == statehandler.states[notebookId] # NoComm

\* Mutant of StateHandler.close: the entry is kept.
close_keep(sh, notebookId) == sh

\* StateHandler.close: delete the entry, nothing is sent or closed.
close(sh, notebookId) == [sh EXCEPT !.states[notebookId] = NoComm]

\* The number of slots on notebooks.currentChanged: initStateHandling connects
\* one in the constructor and one more at every reset, and none is ever
\* disconnected.
currentChangedSubs == statehandler.id + 1

\* The number of slots on the connectionStatusChanged signal of notebook d's
\* kernel: every ready.then continuation that has run connected one.
statusSubs(d) == IF sessionReady[d] THEN wired[d] ELSE 0

Init ==
    /\ current = NoDoc
    /\ currentState = notattached
    /\ statehandler = NewStateHandler(0)
    /\ comms = <<>>
    /\ wired = [d \in Docs |-> 0]
    /\ sessionReady = [d \in Docs |-> FALSE]
    /\ connectionStatus = [d \in Docs |-> "connecting"]
    /\ kernelSubs = [d \in Docs |-> 0]
    /\ pendingReset = 0
    /\ metadata = [d \in Docs |-> None]
    /\ sent = <<>>
    /\ kernelCalls = <<>>
    /\ phaseCalls = <<>>
    /\ lastSaved = [d \in Docs |-> None]
    /\ arrival = NoArrival
    /\ ordering = [doc |-> NoDoc, n |-> 0]

\* ------------------------------------------------------------- helpers
Replicate(n, x) == [i \in 1..n |-> x]

RECURSIVE SumOver(_, _)
SumOver(S, f) ==
    IF S = {} THEN 0
    ELSE LET x == CHOOSE y \in S : TRUE IN f[x] + SumOver(S \ {x}, f)

\* Continuations registered so far, and phase-signal slots connected so far.
WiredUsed == SumOver(Docs, wired)
SlotsUsed ==
    SumOver(CommIds, [c \in CommIds |->
        comms[c].onConnect + comms[c].connectedSubs + comms[c].failedSubs])

Reconnect(d) == [call |-> "reconnect", doc |-> d]
Restart(d) == [call |-> "restart", doc |-> d]

\* A call phase.method(arg) on the phase object `phase` of comm c's bundle.
PhaseCall(c, phase, method, arg) ==
    [comm |-> c, phase |-> phase, method |-> method, arg |-> arg]

\* Outbound envelopes, as the object literals of the source spell them.
OpenMsg(c) == [comm |-> c, type |-> "action", action |-> "sparkconn-action-open"]
ConnectMsg(c) ==
    [comm |-> c, type |-> "action", action |-> "sparkconn-action-connect"]
DisconnectMsg(c) ==
    [comm |-> c, type |-> "action", action |-> "sparkconn-action-disconnect"]
\* connectfailed.onReconfigure sends { action: ... } without a type field.
DisconnectMsgFailed(c) ==
    [comm |-> c, type |-> Absent, action |-> "sparkconn-action-disconnect"]

Event(t, d, a) == [type |-> t, doc |-> d, arg |-> a]

\* The event sequence focus(D), status(connecting), status(connected),
\* message(open, page=config), action(connect) for a ready document D:
\* how far the events handled so far, ending with e, have got through it.
Observe(e) ==
    IF ordering.n = 1 /\ e = Event("status", ordering.doc, "connecting")
        THEN [ordering EXCEPT !.n = 2]
    ELSE IF ordering.n = 2 /\ e = Event("status", ordering.doc, "connected")
        THEN [ordering EXCEPT !.n = 3]
    ELSE IF ordering.n = 3 /\ e = Event("msg", ordering.doc, "open-config")
        THEN [ordering EXCEPT !.n = 4]
    ELSE IF ordering.n = 4 /\ e = Event("action", ordering.doc, "connect")
        THEN [ordering EXCEPT !.n = 5]
    ELSE IF e.type = "focus" /\ e.doc \in Docs /\ sessionReady[e.doc]
        THEN [doc |-> e.doc, n |-> 1]
    ELSE [doc |-> NoDoc, n |-> 0]

\* ------------------------------------------------------ StateHandler
\* StateHandler.open: returns early on a disposed comm; the send of
\* sparkconn-action-open is commented out, so nothing is sent either way.
open(notebookId) ==
    IF comms[statehandler.states[notebookId]].st # "open" THEN <<>> ELSE <<>>

\* StateHandler.create: a new comm is opened with the open handshake and a
\* fresh NotebookStates; the registry entry is set only by the open().done
\* continuation (CommAck).
create(notebook) ==
    [notebook |-> notebook,
     handler |-> statehandler.id,  \* the StateHandler whose closures it holds
     done |-> FALSE,               \* open().done is settled
     st |-> "open",                \* "open", or "closed" once comm.isDisposed
     onConnect |-> 0,              \* slots on states.configuring.onConnect
     connectedSubs |-> 0,          \* slots on states.connected.onReconfigure
     failedSubs |-> 0,             \* slots on states.connectfailed.onReconfigure
     interrupted |-> FALSE]        \* 'connecting' came while done is pending

\* Mutant of getCurrentConfigFromNotebook: the stored value is never read.
getCurrentConfigFromNotebook_default(notebookPanel) == EmptyConfig

\* getCurrentConfigFromNotebook
getCurrentConfigFromNotebook(notebookPanel) ==
    IF metadata[notebookPanel] # None
        THEN metadata[notebookPanel][1]
        ELSE EmptyConfig

\* setCurrentConfigToNotebook
setCurrentConfigToNotebook(notebookPanel, config) ==
    [metadata EXCEPT ![notebookPanel] = Some(config)]

\* ------------------------------------------------ initStateHandling
\* The sessionContext.ready continuation (lines 179-223), run k times for
\* notebook d whose kernel is in connection status `status`: the kernel calls
\* it makes,
ReadyCallsAt(d, k, status) ==
    IF has(d) THEN <<>>
    ELSE IF status = "connected" THEN Replicate(k, Reconnect(d))
    ELSE <<>>

ReadyCalls(d, k) == ReadyCallsAt(d, k, connectionStatus[d])

\* ... and the messages it sends (StateHandler.open, when has(d)).
ReadySent(d, k) ==
    IF k > 0 /\ has(d) THEN open(d) ELSE <<>>

\* notebooks.currentChanged emits nbPanel: every connected slot runs, then the
\* ready continuations of a notebook whose session is already ready.
CurrentChanged(nbPanel) ==
    /\ nbPanel # current
    /\ current' = nbPanel
    /\ IF nbPanel = NoDoc
         THEN /\ currentState' = notattached
              /\ UNCHANGED wired
              /\ sent' = <<>>
              /\ kernelCalls' = <<>>
         ELSE /\ WiredUsed + currentChangedSubs <= MaxWired
              /\ currentState' = loading
              /\ wired' = [wired EXCEPT ![nbPanel] = @ + currentChangedSubs]
              /\ kernelCalls' = IF sessionReady[nbPanel]
                                  THEN ReadyCalls(nbPanel, currentChangedSubs)
                                  ELSE <<>>
              /\ sent' = IF sessionReady[nbPanel]
                           THEN ReadySent(nbPanel, currentChangedSubs)
                           ELSE <<>>
    /\ phaseCalls' = <<>>
    /\ ordering' = Observe(Event("focus", nbPanel, ""))
    /\ arrival' = NoArrival
    /\ UNCHANGED <<statehandler, comms, sessionReady, connectionStatus,
                   kernelSubs, pendingReset, metadata, lastSaved>>

\* sessionContext.ready of notebook d resolves: the session's kernel exists
\* from here on, in some connection status, and the pending continuations run.
SessionReady(d, status) ==
    /\ ~sessionReady[d]
    /\ sessionReady' = [sessionReady EXCEPT ![d] = TRUE]
    /\ connectionStatus' = [connectionStatus EXCEPT ![d] = status]
    /\ kernelCalls' = ReadyCallsAt(d, wired[d], status)
    /\ sent' = ReadySent(d, wired[d])
    /\ phaseCalls' = <<>>
    /\ ordering' = Observe(Event("ready", d, ""))
    /\ arrival' = NoArrival
    /\ UNCHANGED <<current, currentState, statehandler, comms, wired,
                   kernelSubs, pendingReset, metadata, lastSaved>>

\* Mutant of StatusPhase: the two branches display each other's phase.
StatusPhase_swapped(status) ==
    IF status = "connecting" THEN notattached ELSE loading

\* One connectionStatusChanged slot (lines 194-221) for status 'connecting'
\* or any status other than 'connected': the displayed phase it sets.
StatusPhase(status) ==
    IF status = "connecting" THEN loading ELSE notattached

\* The comms after the 'connecting' branch (lines 215-217) ran for notebook
\* d: the branch touches none of them, and a comm of d whose open().done is
\* still pending is from here on one of an interrupted connection.
Interrupted(d) ==
    [c \in CommIds |->
        IF comms[c].notebook = d /\ ~comms[c].done
            THEN [comms[c] EXCEPT !.interrupted = TRUE]
            ELSE comms[c]]

\* kernel.connectionStatusChanged of notebook d's kernel emits status (the
\* signal is emitted when the status changes): every connected slot runs.
StatusChanged(d, status) ==
    /\ sessionReady[d]
    /\ status # connectionStatus[d]
    /\ connectionStatus' = [connectionStatus EXCEPT ![d] = status]
    /\ IF statusSubs(d) = 0
         THEN UNCHANGED <<currentState, statehandler, comms>>
       ELSE IF status = "connected"
         THEN /\ Len(comms) + statusSubs(d) <= MaxComms
              /\ comms' = comms \o Replicate(statusSubs(d), create(d))
              /\ UNCHANGED <<currentState, statehandler>>
       ELSE /\ currentState' = StatusPhase(status)
            /\ statehandler' = IF status = "connecting"
                                 THEN close(statehandler, d)
                                 ELSE statehandler
            /\ comms' = IF status = "connecting" THEN Interrupted(d)
                         ELSE comms
    /\ sent' = <<>>
    /\ kernelCalls' = <<>>
    /\ phaseCalls' = <<>>
    /\ ordering' = Observe(Event("status", d, status))
    /\ arrival' = NoArrival
    /\ UNCHANGED <<current, wired, sessionReady, kernelSubs, pendingReset,
                   metadata, lastSaved>>
\* ------------------------------------------------------- comm traffic
\* The kernel's replies, comm messages and comm_close travel over the kernel
\* connection, so they are delivered only while it is connected.
Delivers(c) ==
    /\ c \in CommIds
    /\ connectionStatus[comms[c].notebook] = "connected"

\* The registry that the closures of comm c (open().done.then, onClose) act
\* on is the `states` map of the StateHandler that created c.  After a reset
\* that StateHandler is unreachable from the widget, and what the closures do
\* to its map is unobservable, so only the live map is kept.
OwnRegistry(c) == comms[c].handler = statehandler.id

\* The open().done continuation (lines 105-108): the entry is set.
onDone(c) ==
    IF OwnRegistry(c)
        THEN [statehandler EXCEPT !.states[comms[c].notebook] = c]
        ELSE statehandler

\* open().done of comm c resolves.
CommAck(c) ==
    /\ Delivers(c)
    /\ ~comms[c].done
    /\ comms' = [comms EXCEPT ![c].done = TRUE, ![c].interrupted = FALSE]
    /\ statehandler' = onDone(c)
    /\ sent' = <<>>
    /\ kernelCalls' = <<>>
    /\ phaseCalls' = <<>>
    /\ ordering' = Observe(Event("ack", comms[c].notebook, ""))
    /\ arrival' = NoArrival
    /\ UNCHANGED <<current, currentState, wired, sessionReady, connectionStatus,
                   kernelSubs, pendingReset, metadata, lastSaved>>

\* comm.onClose (lines 109-112): the entry of the notebook is deleted,
\* whichever comm it holds.
onClose(c) ==
    IF OwnRegistry(c) THEN close(statehandler, comms[c].notebook)
    ELSE statehandler

\* The backend closes comm c.
CommClose(c) ==
    /\ Delivers(c)
    /\ comms[c].st = "open"
    /\ comms' = [comms EXCEPT ![c].st = "closed"]
    /\ statehandler' = onClose(c)
    /\ sent' = <<>>
    /\ kernelCalls' = <<>>
    /\ phaseCalls' = <<>>
    /\ ordering' = Observe(Event("close", comms[c].notebook, ""))
    /\ arrival' = NoArrival
    /\ UNCHANGED <<current, currentState, wired, sessionReady, connectionStatus,
                   kernelSubs, pendingReset, metadata, lastSaved>>

\* Mutant of Filtered: the focus filter lets every message through.
Filtered_never(c) == FALSE

\* The focus filter of comm.onMsg (lines 202-207).
Filtered(c) == current = NoDoc \/ current # comms[c].notebook

\* onCommMessage (lines 231-355), per msgtype: the slots it connects,
SlotsAfter(c, msgtype) ==
    CASE msgtype = "open-config" -> [comms[c] EXCEPT !.onConnect = @ + 1]
      [] msgtype = "connected" -> [comms[c] EXCEPT !.connectedSubs = @ + 1]
      [] msgtype = "connect-error" -> [comms[c] EXCEPT !.failedSubs = @ + 1]
      [] OTHER -> comms[c]

\* ... the displayed phase afterwards,
DisplayedAfter(c, msgtype) ==
    CASE msgtype = "open-config" -> Phase("configuring", c)
      [] msgtype = "connected" -> Phase("connected", c)
      [] msgtype = "connect-error" -> Phase("connectfailed", c)
      [] OTHER -> currentState

\* Mutant of FollowLog: the line is logged whatever is displayed.
FollowLog_always(c, text) == << PhaseCall(c, "connected", "log", text) >>

\* The follow-log case (lines 340-346): the log call it makes, on a phase
\* object of the comm that received the message.
FollowLog(c, text) ==
    IF currentState.name = "connected"
        THEN << PhaseCall(c, "connected", "log", text) >>
    ELSE IF currentState.name = "connecting"
        THEN << PhaseCall(c, "connecting", "log", text) >>
    ELSE <<>>

\* ... and the calls it makes on the phase objects of notebookComm.states.
PhaseCallsOf(c, msgtype, text) ==
    CASE msgtype = "open-config" ->
            << PhaseCall(c, "configuring", "init",
                         getCurrentConfigFromNotebook(comms[c].notebook)) >>
      [] msgtype = "connected" -> << PhaseCall(c, "connected", "init", text) >>
      [] msgtype = "connect-error" ->
            << PhaseCall(c, "connectfailed", "init", text) >>
      [] msgtype = "follow-log" -> FollowLog(c, text)
      [] OTHER -> <<>>

\* The conditions a message of comm c arrives in, as the handlers test
\* them: its notebook is not the focused one (lines 203-204), or it is a
\* follow-log while neither Connected nor Connecting is displayed (lines 341
\* and 343).
Arrival(c, msgtype) ==
    IF current = NoDoc \/ current # comms[c].notebook THEN "unfocused"
    ELSE IF msgtype = "follow-log"
              /\ currentState.name \notin {"connected", "connecting"}
        THEN "nolog"
    ELSE NoArrival

\* The model connects at most MaxSlots slots to phase signals.
RoomFor(msgtype) ==
    msgtype \in {"open-config", "connected", "connect-error"}
        => SlotsUsed < MaxSlots

\* comm.onMsg (lines 201-214) for a message of the given msgtype on comm c.
CommMsg(c, msgtype, text) ==
    /\ Delivers(c)
    /\ comms[c].st = "open"
    /\ IF Filtered(c)
         THEN /\ UNCHANGED <<currentState, comms, kernelSubs>>
              /\ phaseCalls' = <<>>
         ELSE /\ RoomFor(msgtype)
              /\ comms' = [comms EXCEPT ![c] = SlotsAfter(c, msgtype)]
              /\ currentState' = DisplayedAfter(c, msgtype)
              /\ phaseCalls' = PhaseCallsOf(c, msgtype, text)
              /\ kernelSubs' = IF msgtype = "connected"
                                 THEN [kernelSubs EXCEPT
                                          ![comms[c].notebook] = @ + 1]
                                 ELSE kernelSubs
    /\ sent' = <<>>
    /\ kernelCalls' = <<>>
    /\ ordering' = Observe(Event("msg", comms[c].notebook, msgtype))
    /\ arrival' = Arrival(c, msgtype)
    /\ UNCHANGED <<current, statehandler, wired, sessionReady, connectionStatus,
                   pendingReset, metadata, lastSaved>>

\* ------------------------------------------------------- user actions
\* IComm.send throws on a comm that is closed or disposed; the slot that
\* called it ends there.  k slots each send msg on comm c.
Sends(c, k, msg) == IF comms[c].st = "open" THEN Replicate(k, msg) ELSE <<>>

\* kernel.restart() follows the send in the reconfigure slots, so it is
\* reached only when the send did not throw.
Restarts(c, k) ==
    IF comms[c].st = "open" THEN Replicate(k, Restart(comms[c].notebook))
    ELSE <<>>

\* configuring.onConnect emits (the user pressed connect on the displayed
\* Configuring phase) with connectMessage.metadata = config: every slot
\* connected at lines 260-282 runs.
Connect(c, config) ==
    /\ c \in CommIds
    /\ currentState = Phase("configuring", c)
    /\ comms[c].onConnect > 0
    /\ phaseCalls' = Replicate(comms[c].onConnect,
                               PhaseCall(c, "connecting", "init", ""))
    /\ currentState' = Phase("connecting", c)
    /\ metadata' = setCurrentConfigToNotebook(comms[c].notebook, config)
    /\ lastSaved' = [lastSaved EXCEPT ![comms[c].notebook] = Some(config)]
    /\ sent' = Sends(c, comms[c].onConnect, ConnectMsg(c))
    /\ kernelCalls' = <<>>
    /\ ordering' = Observe(Event("action", comms[c].notebook, "connect"))
    /\ arrival' = NoArrival
    /\ UNCHANGED <<current, statehandler, comms, wired, sessionReady,
                   connectionStatus, kernelSubs, pendingReset>>

\* connected.onReconfigure emits: every slot connected at lines 309-317 runs.
ReconfigureConnected(c) ==
    /\ c \in CommIds
    /\ currentState = Phase("connected", c)
    /\ comms[c].connectedSubs > 0
    /\ currentState' = loading
    /\ sent' = Sends(c, comms[c].connectedSubs, DisconnectMsg(c))
    /\ kernelCalls' = Restarts(c, comms[c].connectedSubs)
    /\ phaseCalls' = <<>>
    /\ ordering' = Observe(Event("action", comms[c].notebook, "reconfigure"))
    /\ arrival' = NoArrival
    /\ UNCHANGED <<current, statehandler, comms, wired, sessionReady,
                   connectionStatus, kernelSubs, pendingReset, metadata,
                   lastSaved>>

\* connectfailed.onReconfigure emits: every slot connected at lines 328-336
\* runs.
ReconfigureFailed(c) ==
    /\ c \in CommIds
    /\ currentState = Phase("connectfailed", c)
    /\ comms[c].failedSubs > 0
    /\ currentState' = loading
    /\ sent' = Sends(c, comms[c].failedSubs, DisconnectMsgFailed(c))
    /\ kernelCalls' = Restarts(c, comms[c].failedSubs)
    /\ phaseCalls' = <<>>
    /\ ordering' = Observe(Event("action", comms[c].notebook, "reconfigure"))
    /\ arrival' = NoArrival
    /\ UNCHANGED <<current, statehandler, comms, wired, sessionReady,
                   connectionStatus, kernelSubs, pendingReset, metadata,
                   lastSaved>>

\* ------------------------------------------------------ kernel restart
\* A restarting kernel connection disposes its comms, without calling
\* onClose, and the pending futures of their open(), whose done never
\* resolves.
Disposed(d) ==
    [c \in CommIds |->
        IF comms[c].notebook = d
            THEN [comms[c] EXCEPT !.st = "closed", !.done = TRUE,
                                  !.interrupted = FALSE]
            ELSE comms[c]]

\* kernel.statusChanged of notebook d's kernel emits 'restarting': every slot
\* connected at line 300 calls kernel.reconnect().then(reset).
KernelRestarting(d) ==
    /\ kernelSubs[d] > 0 => statehandler.id + pendingReset < MaxResets
    /\ comms' = Disposed(d)
    /\ pendingReset' = pendingReset + kernelSubs[d]
    /\ kernelCalls' = Replicate(kernelSubs[d], Reconnect(d))
    /\ sent' = <<>>
    /\ phaseCalls' = <<>>
    /\ ordering' = Observe(Event("restarting", d, ""))
    /\ arrival' = NoArrival
    /\ UNCHANGED <<current, currentState, statehandler, wired, sessionReady,
                   connectionStatus, kernelSubs, metadata, lastSaved>>

\* A kernel.reconnect() of line 303 resolves (lines 304-305): a new
\* StateHandler replaces the registry and initStateHandling runs again, which
\* assigns currentState and connects one more slot to currentChanged.
ReconnectDone ==
    /\ pendingReset > 0
    /\ pendingReset' = pendingReset - 1
    /\ statehandler' = NewStateHandler(statehandler.id + 1)
    /\ currentState' = notattached
    /\ sent' = <<>>
    /\ kernelCalls' = <<>>
    /\ phaseCalls' = <<>>
    /\ ordering' = Observe(Event("reset", NoDoc, ""))
    /\ arrival' = NoArrival
    /\ UNCHANGED <<current, comms, wired, sessionReady, connectionStatus,
                   kernelSubs, metadata, lastSaved>>

Next ==
    \/ \E nbPanel \in Docs \cup {NoDoc} : CurrentChanged(nbPanel)
    \/ \E d \in Docs, status \in ConnectionStatuses : SessionReady(d, status)
    \/ \E d \in Docs, status \in ConnectionStatuses : StatusChanged(d, status)
    \/ \E c \in CommIds : CommAck(c)
    \/ \E c \in CommIds : CommClose(c)
    \/ \E c \in CommIds, msgtype \in MsgTypes, text \in Texts :
            CommMsg(c, msgtype, text)
    \/ \E c \in CommIds, config \in Configs : Connect(c, config)
    \/ \E c \in CommIds : ReconfigureConnected(c)
    \/ \E c \in CommIds : ReconfigureFailed(c)
    \/ \E d \in Docs : KernelRestarting(d)
    \/ ReconnectDone

Spec == Init /\ [][Next]_vars
\* ================================================================ claims
Range(q) == {q[i] : i \in 1..Len(q)}

\* The comms created for notebook d that have not been closed.
OpenComms(d) == {c \in CommIds : comms[c].notebook = d /\ comms[c].st = "open"}

\* C1: in every reachable state each document has at most one open channel.
AtMostOneOpenChannel == \A d \in Docs : Cardinality(OpenComms(d)) <= 1

\* C2: in every reachable state the registry has an entry for D if and only
\* if a channel created for D is currently open.
SessionIffOpenChannel == \A d \in Docs : has(d) <=> OpenComms(d) # {}

\* C3: every phase signal holds exactly one Coordinator slot however often
\* its triggering message was handled, so one user action sends at most one
\* message and requests at most one restart.
OneSlotPerPhaseSignal ==
    /\ \A c \in CommIds :
          /\ comms[c].onConnect <= 1
          /\ comms[c].connectedSubs <= 1
          /\ comms[c].failedSubs <= 1
    /\ Len(sent) <= 1
    /\ Cardinality({i \in 1..Len(kernelCalls) :
                       kernelCalls[i].call = "restart"}) <= 1

\* C4: a transport-status change or a channel message of a document that is
\* not the focused one never changes the displayed phase.
DisplayedFollowsFocusOnly ==
    [][/\ \A d \in Docs, status \in ConnectionStatuses :
             (d # current /\ StatusChanged(d, status))
                 => currentState' = currentState
       /\ \A c \in CommIds, msgtype \in MsgTypes, text \in Texts :
             (comms[c].notebook # current /\ CommMsg(c, msgtype, text))
                 => currentState' = currentState]_vars
\* A comm created under a StateHandler that a reset has since replaced.
Stale(c) == comms[c].handler < statehandler.id

\* C5: a 'restarting' report after a connected message requests a transport
\* reconnect; when it completes the registry is discarded, and nothing
\* created before the reset (here: a comm's message handler, close handler
\* or open continuation) changes the registry or the displayed phase
\* afterwards.
NothingStaleSurvivesReset ==
    [][/\ \A d \in Docs :
             (kernelSubs[d] > 0 /\ KernelRestarting(d))
                 => Reconnect(d) \in Range(kernelCalls')
       /\ ReconnectDone => \A d \in Docs : statehandler'.states[d] = NoComm
       /\ \A c \in CommIds :
             (/\ Stale(c)
              /\ \/ CommAck(c)
                 \/ CommClose(c)
                 \/ \E msgtype \in MsgTypes, text \in Texts :
                        CommMsg(c, msgtype, text))
                 => UNCHANGED <<statehandler, currentState>>]_vars

\* The saved configuration of notebook d: what the last connect action
\* persisted, the empty configuration when there was none.
Saved(d) == IF lastSaved[d] = None THEN EmptyConfig ELSE lastSaved[d][1]

\* C6: whenever an open/config message is handled for D, Configuring is
\* initialized with the configuration that the last connect action for D
\* persisted, and with the empty configuration when nothing was ever saved.
SavedConfigRoundTrip ==
    \A i \in 1..Len(phaseCalls) :
        (phaseCalls[i].phase = "configuring" /\ phaseCalls[i].method = "init")
            => phaseCalls[i].arg = Saved(comms[phaseCalls[i].comm].notebook)

\* C6 witness: Configuring of a second comm of a document is seeded with a
\* configuration saved through a first comm that has been closed since.
SavedConfigRoundTripWitness ==
    /\ Len(comms) = 2
    /\ comms[1].notebook = comms[2].notebook
    /\ comms[1].st = "closed"
    /\ comms[1].onConnect = 1
    /\ comms[2].onConnect = 1
    /\ lastSaved[comms[2].notebook] # None
    /\ phaseCalls = << PhaseCall(2, "configuring", "init",
                                 lastSaved[comms[2].notebook][1]) >>

\* C7: after focus(D), status(connecting), status(connected),
\* message(open, page=config), action(connect) for a ready document D the
\* displayed phases are Loading, Loading, Loading, Configuring, Connecting.
OrderingPhases ==
    /\ ordering.n \in {1, 2, 3} => currentState = loading
    /\ ordering.n = 4 => currentState.name = "configuring"
    /\ ordering.n = 5 => currentState.name = "connecting"

\* C7 witness: the whole event sequence has been handled.
OrderingPhasesWitness == ordering.n = 5 /\ currentState.name = "connecting"

\* C8: a displayed Configuring, Connecting, Connected or ConnectFailed is the
\* phase object of the session registered for the focused document.
DisplayedPhaseIsRegistered ==
    currentState.name \in SessionPhases
        => /\ current \in Docs
           /\ statehandler.states[current] = currentState.comm

\* C9: when the backend closes the channel of the focused document while a
\* session phase is displayed, the display falls back to NotAttached or
\* Loading.
CloseFallsBack ==
    [][\A c \in CommIds :
          (/\ comms[c].notebook = current
           /\ currentState.name \in SessionPhases
           /\ CommClose(c))
              => currentState' \in {notattached, loading}]_vars

\* C10: when focus changes to a ready document D that has a session in the
\* registry, the open handshake is sent again on D's channel.
FocusReissuesOpen ==
    [][\A d \in Docs :
          (/\ sessionReady[d]
           /\ has(d)
           /\ comms[statehandler.states[d]].st = "open"
           /\ CurrentChanged(d))
              => OpenMsg(statehandler.states[d]) \in Range(sent')]_vars

\* C11: a connect-error message handled for the focused document displays
\* ConnectFailed of that channel, initialized with the reported error text;
\* firing its reconfigure notification sends a disconnect action on the
\* channel, requests a kernel restart and displays Loading.
ConnectErrorThenReconfigure ==
    [][/\ \A c \in CommIds, text \in Texts :
             (~Filtered(c) /\ CommMsg(c, "connect-error", text))
                 => /\ currentState' = Phase("connectfailed", c)
                    /\ PhaseCall(c, "connectfailed", "init", text)
                           \in Range(phaseCalls')
       /\ \A c \in CommIds :
             ReconfigureFailed(c)
                 => /\ \E i \in 1..Len(sent') :
                          /\ sent'[i].comm = c
                          /\ sent'[i].action = "sparkconn-action-disconnect"
                    /\ Restart(comms[c].notebook) \in Range(kernelCalls')
                    /\ currentState' = loading]_vars

\* C12: every message sent on a channel has the envelope field
\* type = "action" together with an action name.
EveryEnvelopeIsAction ==
    \A i \in 1..Len(sent) :
        sent[i].type = "action" /\ sent[i].action # Absent

\* C13: when the connection status of D changes to 'connecting' while the
\* registry has a session for D, the session is removed, the displayed phase
\* becomes Loading and no message is sent in that step.
ConnectingDropsSession ==
    [][\A d \in Docs :
          (has(d) /\ StatusChanged(d, "connecting"))
              => /\ statehandler'.states[d] = NoComm
                 /\ currentState' = loading
                 /\ sent' = <<>>]_vars

\* C13 witness: the connection of D is 'connecting', a comm of D whose open
\* was acknowledged under the current StateHandler is still open (so no
\* close handler removed the entry), and D has no session left.
ConnectingDropsSessionWitness ==
    \E d \in Docs :
        /\ connectionStatus[d] = "connecting"
        /\ \E c \in CommIds :
              comms[c].notebook = d /\ comms[c].done /\ OwnRegistry(c)
        /\ \A c \in CommIds : comms[c].notebook = d => comms[c].st = "open"
        /\ ~has(d)
        /\ currentState = loading
        /\ sent = <<>>

\* C14: when focus moves to a document the displayed phase becomes Loading;
\* a message arriving on the channel of a document that is not the focused
\* one is dropped: it changes neither the displayed phase, nor phase data or
\* slots, nor document metadata, nor the registry, and sends nothing; a later
\* focus change replays nothing (no phase is initialized or displayed by it).
UnfocusedMessagesDropped ==
    [][/\ arrival' = "unfocused"
             => /\ UNCHANGED <<currentState, comms, metadata, statehandler,
                               kernelSubs, lastSaved>>
                /\ phaseCalls' = <<>>
                /\ sent' = <<>>
                /\ kernelCalls' = <<>>
       /\ (current' # current /\ current' \in Docs)
             => /\ currentState' = loading
                /\ phaseCalls' = <<>>
                /\ UNCHANGED <<comms, metadata>>]_vars

\* C14 witness: focus has moved from a document whose channel had displayed
\* Connected to another document, Loading is displayed, and the last step
\* handled a message of the unfocused document's open channel.
UnfocusedMessagesDroppedWitness ==
    /\ arrival = "unfocused"
    /\ current \in Docs
    /\ currentState = loading
    /\ \E c \in CommIds :
          /\ comms[c].notebook # current
          /\ comms[c].st = "open"
          /\ comms[c].connectedSubs > 0

\* C15: a follow-log message handled while the displayed phase is neither
\* Connected nor Connecting leaves the displayed phase, every phase's log
\* buffer (no phase call is made), the registry and the sent messages
\* unchanged.
FollowLogIgnored ==
    [][arrival' = "nolog"
          => /\ UNCHANGED <<currentState, statehandler, comms, metadata>>
             /\ phaseCalls' = <<>>
             /\ sent' = <<>>
             /\ kernelCalls' = <<>>]_vars

\* C15 witness: the last step handled a follow-log message of the focused
\* document's channel while Configuring was displayed.
FollowLogIgnoredWitness ==
    /\ arrival = "nolog"
    /\ currentState.name = "configuring"
    /\ current = comms[currentState.comm].notebook

\* C16: a follow-log message handled while Connected or Connecting is
\* displayed appends its line to the log buffer of the phase object that is
\* displayed, not to a same-named phase object of another channel.
FollowLogGoesToDisplayed ==
    \A i \in 1..Len(phaseCalls) :
        phaseCalls[i].method = "log"
            => Phase(phaseCalls[i].phase, phaseCalls[i].comm) = currentState

\* C17: one 'restarting' report of a kernel that has handled a connected
\* message causes exactly one reconnect request and exactly one pending
\* reset, however many connected messages were handled before it.
SingleCoordinatedRetry ==
    [][\A d \in Docs :
          (kernelSubs[d] > 0 /\ KernelRestarting(d))
              => /\ kernelCalls' = << Reconnect(d) >>
                 /\ pendingReset' = pendingReset + 1]_vars

\* C18: when the reset completes while a document is focused, the displayed
\* phase right after it is Loading.
ResetRedisplaysLoading ==
    [][(current \in Docs /\ ReconnectDone) => currentState' = loading]_vars

\* C19: each document's kernel has at most one connectionStatusChanged slot
\* of the widget, so one 'connected' status event creates exactly one comm.
OneStatusSubscription ==
    [][\A d \in Docs :
          /\ statusSubs(d) <= 1
          /\ (statusSubs(d) > 0 /\ StatusChanged(d, "connected"))
                 => Len(comms') = Len(comms) + 1]_vars

\* C20: a channel-open acknowledgement that arrives after a 'connecting'
\* status event of its document was handled does not register the superseded
\* channel in the current registry, and while the connection of D is
\* 'connecting' the registry has no session for D.
LateAckNotRegistered ==
    [][/\ \A d \in Docs :
             (statusSubs(d) > 0 /\ connectionStatus'[d] = "connecting")
                 => statehandler'.states[d] = NoComm
       /\ \A c \in CommIds :
             (comms[c].interrupted /\ CommAck(c))
                 => statehandler'.states[comms[c].notebook] # c]_vars
====
